---------------------------- MODULE Spec2Model ----------------------------
(***************************************************************************)
(* NEC infrared codec of MicroPython-Infrared: the sender (ir_send.py),    *)
(* the receiver's edge-interrupt capture, its poll loop and its decoder    *)
(* (ir_resv.py).                                                           *)
(*                                                                         *)
(* Several specifications share the definitions below:                     *)
(*   SpecTx   IRSender._transmit_data played on the PWM, segment by        *)
(*            segment;                                                     *)
(*   SpecDec  the poll loop and IRReceiver.decode_nec on captured pulse    *)
(*            sequences, with the millisecond clock of the repeat window;  *)
(*   SpecLoop one _transmit_data(F, 0) looped back into a fresh receiver;  *)
(*   Spec     the receiver as a concurrent system: the edge interrupt      *)
(*            (_ir_event_handler) interleaved with the __main__ poll loop  *)
(*            and decode_nec, fed by the edges of this repository's        *)
(*            sender and by disturbed light;                               *)
(*   SpecFair Spec with a poll loop that keeps running and a clock that    *)
(*            keeps advancing;                                             *)
(*   SpecApi  IRSender.send_full_nec_hex on str and non-str arguments,     *)
(*            and a fresh receiver that hears what it played;              *)
(*   SpecSnap decode_nec on captures that deviate from a sent frame;       *)
(*   SpecNoise the capture buffer under edges 99 or 100 us apart;          *)
(*   SpecCall SpecLoop with decode_nec also called while not ready;        *)
(*   SpecLife send_ir and cleanup_ir_sender on the module's global sender. *)
(*                                                                         *)
(* Time.  time.ticks_us()/ticks_ms() are read by the code only through     *)
(* ticks_diff against a stored timestamp, so the model keeps, for each     *)
(* timestamp field, the time elapsed since it was written (since_edge_us   *)
(* for last_time_us, since_code_us for last_code_time_ms), saturating at a *)
(* cap beyond every threshold the code compares with.  ticks_ms is the     *)
(* same clock divided by 1000.  Tick wrap-around (2^30) is outside the     *)
(* model: elapsed times stay below half a tick period.                     *)
(*                                                                         *)
(* A 32-bit word is a record [hi, lo] of two 16-bit halves, so that no     *)
(* value exceeds the 31-bit integers of the model checker.                 *)
(***************************************************************************)
EXTENDS Integers, Sequences, FiniteSets, TLC

VARIABLES
    \* ---- IRReceiver fields (ir_resv.py __init__) ----
    buffer,              \* self.buffer: pulse durations, oldest first
    new_data_available,  \* self.new_data_available
    last_code_hex,       \* self.last_code_hex: <<>> for None, else the decoded string
    since_edge_us,       \* ticks_diff(ticks_us(), self.last_time_us)
    since_code_us,       \* clock time since self.last_code_time_ms was written
    \* ---- locals of the last _ir_event_handler call ----
    pulse_duration,
    current_pin_value,
    \* ---- __main__ poll loop ----
    pc,                  \* position of the poll loop
    pulses,              \* decode_nec's snapshot of the buffer
    decoded_code,        \* result of the last decode_nec call
    \* ---- the IR channel feeding the receiver ----
    script,              \* edges still to arrive of the transmission in flight
    tx_left,             \* transmissions the channel may still start
    cur_tx,              \* number of the transmission in flight (0: none yet)
    sent,                \* the code of the last send heard (<<>>: none)
    \* ---- history (not read by the program) ----
    buffer_tag,          \* for each pulse of buffer: <<transmission, frame>>
    pulses_tag,          \* the same for the pulses of the snapshot
    n_since_snap,        \* records since construction or the last snapshot,
                         \* counted up to MAX_PULSES + 2
    ready_src,           \* who last raised new_data_available
    cmd_seen,            \* a decode_nec call has returned a Command
    recent,              \* the last two results of decode_nec other than None
    since_command_us,    \* clock time since the last Command result
    since_repeat_us,     \* clock time since the last REPEAT result
    \* ---- IRSender ----
    duty,                \* self.pwm duty_u16 value
    tx_pc,               \* position inside _transmit_data
    segs,                \* segments _transmit_data still has to play
    emitted,             \* segments played so far by this call
    data_to_send,        \* argument data_to_send_32bit
    num_repeats,         \* argument num_repeats
    full_code_hex,       \* argument of the last send_full_nec_hex call
    send_ret,            \* what that call returned ("none": never called,
                         \* "pending": still inside _transmit_data)
    \* ---- module globals of ir_send.py ----
    sender_instance,     \* _sender_instance: 0 for None, else the number of
                         \* the IRSender object it refers to
    n_senders,           \* IRSender objects constructed so far
    pwm_deinits,         \* for each IRSender object: calls of its deinit()
    last_call            \* how the last send_ir / cleanup_ir_sender call ended

rxvars == <<buffer, new_data_available, last_code_hex, since_edge_us,
            since_code_us, pulse_duration, current_pin_value>>
pollvars == <<pc, pulses, decoded_code>>
chanvars == <<script, tx_left, cur_tx, sent>>
histvars == <<buffer_tag, pulses_tag, n_since_snap, ready_src>>
dechist == <<cmd_seen, recent, since_command_us, since_repeat_us>>
apivars == <<full_code_hex, send_ret>>
lifevars == <<sender_instance, n_senders, pwm_deinits, last_call>>
\* all of the sender
txvars == <<duty, tx_pc, segs, emitted, data_to_send, num_repeats, apivars,
            lifevars>>
\* everything _transmit_data leaves alone
nontx == <<rxvars, pollvars, chanvars, histvars, dechist, apivars, lifevars>>
vars == <<rxvars, pollvars, chanvars, histvars, dechist, txvars>>

---------------------------------------------------------------------------
(* Program constants: ir_send.py *)
PWM_DUTY_CYCLE == 16384
NEC_HDR_MARK_US == 9000
NEC_HDR_SPACE_US == 4500
NEC_BIT_MARK_US == 560
NEC_ONE_SPACE_US == 1690
NEC_ZERO_SPACE_US == 560
NEC_RPT_HDR_MARK_US == 9000
NEC_RPT_SPACE_US == 2250
NEC_RPT_BIT_MARK_US == 560
NEC_FRAME_GAP_MS == 40

(* Program constants: ir_resv.py *)
NEC_HDR_MARK == 9000
NEC_HDR_SPACE == 4500
NEC_BIT_MARK == 562
NEC_ONE_SPACE == 1688
NEC_ZERO_SPACE == 562
NEC_RPT_SPACE == 2250
TOLERANCE_US == 400
INITIAL_IDLE_THRESHOLD_US == 20000
MAX_PULSES == 100
repeat_delay_ms == 150
GLITCH_US == 100
LONG_SPACE_US == 30000
MIN_GAP_PULSES == 30
FULL_FRAME_PULSES == 67
IDLE_TIMEOUT_US == 70000
MIN_IDLE_PULSES == 10
NEC_BITS == 32

(* The receiver pin: the VS1838B output is active LOW, pulled up when idle. *)
PIN_ACTIVE == 0
PIN_IDLE == 1

---------------------------------------------------------------------------
(* Bounds of the model *)
MaxRepeats == 2          \* num_repeats ranges over 0..MaxRepeats in SpecTx
IdleCapUs == 80000       \* since_edge_us saturates here (> IDLE_TIMEOUT_US)
CodeCapUs == 452000      \* since_code_us saturates here (> 3 * repeat_delay_ms)
MaxTx == 2               \* transmissions the channel starts in Spec
RxMaxRepeats == 1        \* repeats of a send heard by the receiver in Spec
PartialEdges == 30       \* edges of a transmission that is cut short
EdgeMargin == 1          \* how far beside the tolerance SpecSnap's durations fall
LeadInExcess == 5000     \* SpecSnap's lead-in is this far over the idle threshold
FairTx == 1              \* transmissions the channel starts in SpecFair
ApiMaxRepeats == 1       \* num_repeats ranges over 0..ApiMaxRepeats in SpecApi
MaxSenders == 3          \* IRSender objects constructed in SpecLife
FaultAfter == 3          \* segments played before a driver fault in SpecLife

(* 32-bit codes sent: the four of http_serve.py's ACTIONS are standard NEC;  *)
(* 12345678 fails both checksums; the others are the extremes.               *)
Word(hi, lo) == [hi |-> hi, lo |-> lo]
Frames ==
    { Word(30345, 4335),     \* 768910EF
      Word(30345, 53295),    \* 7689D02F
      Word(30345, 16575),    \* 768940BF
      Word(30345, 32895),    \* 7689807F
      Word(4660, 22136),     \* 12345678
      Word(32768, 1),        \* 80000001
      Word(0, 0),            \* 00000000
      Word(65535, 65535) }   \* FFFFFFFF

Min(a, b) == IF a < b THEN a ELSE b

---------------------------------------------------------------------------
(* IRSender: the segments of one _transmit_data call.                      *)
Mark(us) == <<"mark", us>>
Space(us) == <<"space", us>>
Gap(ms) == <<"gap", ms>>

RECURSIVE Pow2(_)
Pow2(n) == IF n = 0 THEN 1 ELSE 2 * Pow2(n - 1)

\* (data >> n) & 1
BitAt(data, n) ==
    IF n >= 16 THEN (data.hi \div Pow2(n - 16)) % 2
               ELSE (data.lo \div Pow2(n)) % 2

\* a sender that shifts the bits out least significant first
DataSegmentsLsbFirst(data) ==
    [k \in 1..(2 * NEC_BITS) |->
        LET i == (k - 1) \div 2
        IN  IF k % 2 = 1
                THEN Mark(NEC_BIT_MARK_US)
                ELSE IF BitAt(data, i) = 1
                         THEN Space(NEC_ONE_SPACE_US)
                         ELSE Space(NEC_ZERO_SPACE_US)]

\* for i in range(32): bit = (data >> (31 - i)) & 1; _mark; _space(one or zero)
DataSegments(data) ==
    [k \in 1..(2 * NEC_BITS) |->
        LET i == (k - 1) \div 2
        IN  IF k % 2 = 1
                THEN Mark(NEC_BIT_MARK_US)
                ELSE IF BitAt(data, 31 - i) = 1
                         THEN Space(NEC_ONE_SPACE_US)
                         ELSE Space(NEC_ZERO_SPACE_US)]

send_repeat_code ==
    << Mark(NEC_RPT_HDR_MARK_US), Space(NEC_RPT_SPACE_US),
       Mark(NEC_RPT_BIT_MARK_US), Space(0) >>

\* a sender that omits the wait before each repeat frame
RECURSIVE RepeatSegmentsNoWait(_)
RepeatSegmentsNoWait(n) ==
    IF n <= 0 THEN << >>
    ELSE send_repeat_code \o RepeatSegmentsNoWait(n - 1)

\* a sender that also waits after each repeat frame
RECURSIVE RepeatSegmentsGapBothSides(_)
RepeatSegmentsGapBothSides(n) ==
    IF n <= 0 THEN << >>
    ELSE <<Gap(NEC_FRAME_GAP_MS)>> \o send_repeat_code
         \o <<Gap(NEC_FRAME_GAP_MS)>> \o RepeatSegmentsGapBothSides(n - 1)

\* for _ in range(num_repeats): sleep_ms(NEC_FRAME_GAP_MS); _send_repeat_code()
RECURSIVE RepeatSegments(_)
RepeatSegments(n) ==
    IF n <= 0 THEN << >>
    ELSE <<Gap(NEC_FRAME_GAP_MS)>> \o send_repeat_code \o RepeatSegments(n - 1)

transmit_data(data, n) ==
    << Mark(NEC_HDR_MARK_US), Space(NEC_HDR_SPACE_US) >>
    \o DataSegments(data)
    \o << Mark(NEC_BIT_MARK_US), Space(0) >>
    \o RepeatSegments(n)
    \o << Gap(NEC_FRAME_GAP_MS) >>

---------------------------------------------------------------------------
(* IRSender played on the PWM.                                             *)
TxIdle == tx_pc \in {"idle", "returned"}

\* a caller invokes _transmit_data(data, n)
TransmitCall ==
    /\ TxIdle
    /\ \E data \in Frames, n \in 0..MaxRepeats :
          /\ data_to_send' = data
          /\ num_repeats' = n
          /\ segs' = transmit_data(data, n)
    /\ emitted' = << >>
    /\ tx_pc' = "run"
    /\ UNCHANGED duty
    /\ UNCHANGED nontx

\* _mark: duty_u16(pwm_duty_on), then sleep_us
MarkOn ==
    /\ tx_pc = "run" /\ segs # << >> /\ Head(segs)[1] = "mark"
    /\ duty' = PWM_DUTY_CYCLE
    /\ tx_pc' = "in_mark"
    /\ UNCHANGED <<segs, emitted, data_to_send, num_repeats>>
    /\ UNCHANGED nontx

\* a _mark that leaves the carrier on when its sleep is over
MarkOffKeepsCarrier ==
    /\ tx_pc = "in_mark"
    /\ emitted' = Append(emitted, Head(segs))
    /\ segs' = Tail(segs)
    /\ tx_pc' = "run"
    /\ UNCHANGED <<duty, data_to_send, num_repeats>>
    /\ UNCHANGED nontx

\* _mark: the sleep is over, duty_u16(pwm_duty_off)
MarkOff ==
    /\ tx_pc = "in_mark"
    /\ duty' = 0
    /\ emitted' = Append(emitted, Head(segs))
    /\ segs' = Tail(segs)
    /\ tx_pc' = "run"
    /\ UNCHANGED <<data_to_send, num_repeats>>
    /\ UNCHANGED nontx

\* _space: duty_u16(pwm_duty_off), then sleep_us when duration_us > 0
SpaceStep ==
    /\ tx_pc = "run" /\ segs # << >> /\ Head(segs)[1] = "space"
    /\ duty' = 0
    /\ emitted' = Append(emitted, Head(segs))
    /\ segs' = Tail(segs)
    /\ UNCHANGED <<tx_pc, data_to_send, num_repeats>>
    /\ UNCHANGED nontx

\* time.sleep_ms(NEC_FRAME_GAP_MS)
GapStep ==
    /\ tx_pc = "run" /\ segs # << >> /\ Head(segs)[1] = "gap"
    /\ emitted' = Append(emitted, Head(segs))
    /\ segs' = Tail(segs)
    /\ UNCHANGED <<duty, tx_pc, data_to_send, num_repeats>>
    /\ UNCHANGED nontx

\* _transmit_data returns
TransmitReturn ==
    /\ tx_pc = "run" /\ segs = << >>
    /\ tx_pc' = "returned"
    /\ UNCHANGED <<duty, segs, emitted, data_to_send, num_repeats>>
    /\ UNCHANGED nontx

---------------------------------------------------------------------------
(* IRSender.send_full_nec_hex.  An argument is a record: is_str tells      *)
(* whether it is a str, chars are its characters.                          *)
Str(cs) == [is_str |-> TRUE, chars |-> cs]
NotAString == [is_str |-> FALSE, chars |-> << >>]

LowerHex == <<"0", "1", "2", "3", "4", "5", "6", "7", "8", "9",
              "a", "b", "c", "d", "e", "f">>
UpperHex == <<"0", "1", "2", "3", "4", "5", "6", "7", "8", "9",
              "A", "B", "C", "D", "E", "F">>

\* the value of the hexadecimal digit c, -1 when c is not one
HexVal(c) ==
    IF \E i \in 1..16 : LowerHex[i] = c
        THEN (CHOOSE i \in 1..16 : LowerHex[i] = c) - 1
    ELSE IF \E i \in 1..16 : UpperHex[i] = c
        THEN (CHOOSE i \in 1..16 : UpperHex[i] = c) - 1
    ELSE -1

\* int(s, 16) drops the white space around the number
Stripped(cs) ==
    LET ink == {i \in 1..Len(cs) : cs[i] # " "}
    IN  IF ink = {} THEN << >>
        ELSE SubSeq(cs, CHOOSE i \in ink : \A j \in ink : i <= j,
                        CHOOSE i \in ink : \A j \in ink : i >= j)

\* int(s, 16) takes one sign
HasSign(cs) == cs # << >> /\ cs[1] \in {"+", "-"}
Unsigned(cs) == IF HasSign(cs) THEN Tail(cs) ELSE cs

\* int(s, 16) takes the prefix 0x or 0X
HasPrefix(cs) == Len(cs) >= 2 /\ cs[1] = "0" /\ cs[2] \in {"x", "X"}
Unprefixed(cs) == IF HasPrefix(cs) THEN SubSeq(cs, 3, Len(cs)) ELSE cs

\* what is left must be hexadecimal digits, at least one
DigitsOf(cs) == Unprefixed(Unsigned(Stripped(cs)))
ParsesAsInt16(cs) ==
    LET ds == DigitsOf(cs)
    IN  ds # << >> /\ \A i \in 1..Len(ds) : HexVal(ds[i]) >= 0

\* the magnitude of at most 8 digits, as a word
MagnitudeOf(ds) ==
    LET d(k) == IF k + Len(ds) - 8 >= 1 THEN HexVal(ds[k + Len(ds) - 8]) ELSE 0
    IN  Word(d(1) * 4096 + d(2) * 256 + d(3) * 16 + d(4),
             d(5) * 4096 + d(6) * 256 + d(7) * 16 + d(8))

\* the low 32 bits of -w, which are the bits (data >> n) & 1 reads from a
\* negative int
Negated(w) ==
    IF w.lo = 0
        THEN Word((65536 - w.hi) % 65536, 0)
        ELSE Word(65535 - w.hi, 65536 - w.lo)

\* int(full_code_hex, 16) of a str of 8 characters that parses
int16(cs) ==
    LET body == Stripped(cs)
        m == MagnitudeOf(DigitsOf(cs))
    IN  IF HasSign(body) /\ body[1] = "-" THEN Negated(m) ELSE m

\* isinstance(full_code_hex, str) and len(full_code_hex) == 8
IsStrOfLen8(arg) == arg.is_str /\ Len(arg.chars) = 8

\* (address ^ not_address_check) == 0xFF and (command ^ not_command_check) == 0xFF
ChecksumOk(w) ==
    /\ (w.hi \div 256) + (w.hi % 256) = 255
    /\ (w.lo \div 256) + (w.lo % 256) = 255

\* a sender that refuses a code whose complement bytes do not match
AcceptedStrictChecksum(arg) ==
    /\ IsStrOfLen8(arg)
    /\ ParsesAsInt16(arg.chars)
    /\ ChecksumOk(int16(arg.chars))

\* the arguments send_full_nec_hex goes on to transmit
Accepted(arg) == IsStrOfLen8(arg) /\ ParsesAsInt16(arg.chars)

\* the arguments passed to send_full_nec_hex
SendArgs ==
    { Str(<<"7","6","8","9","1","0","E","F">>),
      Str(<<"7","6","8","9","d","0","2","f">>),
      Str(<<"1","2","3","4","5","6","7","8">>),
      Str(<<"8","0","0","0","0","0","0","1">>),
      Str(<<"0","0","0","0","0","0","0","0">>),
      Str(<<"F","F","F","F","F","F","F","F">>),
      Str(<<"0","x","1","2","3","4","A","B">>),
      Str(<<"+","1","2","3","4","5","6","7">>),
      Str(<<"-","1","2","3","4","5","6","7">>),
      Str(<<" ","1","2","3","4","5","6","7">>),
      Str(<<"7","6","8","9"," ","0","E","F">>),
      Str(<<"7","6","8","9","G","0","E","F">>),
      Str(<<"0","x","0","x","1","2","3","4">>),
      Str(<<"7","6","8","9","1","0","E">>),
      Str(<<"7","6","8","9","1","0","E","F","0">>),
      Str(<< >>),
      NotAString }

\* send_full_nec_hex(full_code_hex, num_repeats) up to its call of
\* _transmit_data, or to its return False
SendFullNecHex ==
    /\ TxIdle
    /\ send_ret # "pending"
    /\ tx_left > 0
    /\ \E arg \in SendArgs, n \in 0..ApiMaxRepeats :
          /\ full_code_hex' = arg
          /\ IF Accepted(arg)
                THEN /\ data_to_send' = int16(arg.chars)
                     /\ num_repeats' = n
                     /\ segs' = transmit_data(int16(arg.chars), n)
                     /\ tx_pc' = "run"
                     /\ send_ret' = "pending"
                     /\ tx_left' = tx_left - 1
                ELSE /\ send_ret' = "False"
                     /\ UNCHANGED <<data_to_send, num_repeats, segs, tx_pc,
                                    tx_left>>
    /\ emitted' = << >>
    /\ UNCHANGED <<duty, rxvars, pollvars, histvars, dechist, script, cur_tx,
                   sent, lifevars>>

\* _transmit_data has returned: send_full_nec_hex returns True
SendReturn ==
    /\ tx_pc = "returned"
    /\ send_ret = "pending"
    /\ send_ret' = "True"
    /\ UNCHANGED <<duty, tx_pc, segs, emitted, data_to_send, num_repeats,
                   full_code_hex>>
    /\ UNCHANGED <<rxvars, pollvars, chanvars, histvars, dechist, lifevars>>

---------------------------------------------------------------------------
(* send_ir and cleanup_ir_sender: the module's global sender.              *)

\* the num_repeats_int arguments passed to send_ir: an int, a str that int()
\* parses, a str it does not, and None
IntArg(n) == [type |-> "int", val |-> n]
StrArg(n) == [type |-> "str", val |-> n]
BadStrArg == [type |-> "badstr", val |-> 0]
NoneArg == [type |-> "none", val |-> 0]
RepeatArgs == { IntArg(0), IntArg(1), IntArg(-1), StrArg(1), BadStrArg, NoneArg }

\* num_repeats = int(num_repeats_int), 0 when negative or on ValueError;
\* int(None) raises TypeError, which the inner try does not catch
ParseRepeats(arg) ==
    IF arg.type = "none" THEN [raises |-> TRUE, n |-> 0]
    ELSE IF arg.type = "badstr" THEN [raises |-> FALSE, n |-> 0]
    ELSE IF arg.val < 0 THEN [raises |-> FALSE, n |-> 0]
    ELSE [raises |-> FALSE, n |-> arg.val]

\* what the driver does during the call: nothing unusual, an exception out of
\* the IRSender constructor, or an exception out of a PWM call after
\* FaultAfter segments of the transmission
Faults == { "none", "in_init", "in_transmit" }

\* the hex_code_str arguments passed to send_ir: three codes that are
\* transmitted, one that is not hexadecimal, and None
LifeArgs ==
    { Str(<<"7","6","8","9","1","0","E","F">>),
      Str(<<"1","2","3","4","5","6","7","8">>),
      Str(<<"0","x","1","2","3","4","A","B">>),
      Str(<<"7","6","8","9","G","0","E","F">>),
      NotAString }

\* a send_ir that constructs a sender on every call
NeedsNewSenderAlways(inst) == TRUE

\* if _sender_instance is None
NeedsNewSender(inst) == inst = 0

\* _sender_instance.deinit(): one more deinit of the object id
Deinit(counts, id) == [counts EXCEPT ![id] = @ + 1]

\* send_ir(hex_code_str, num_repeats_int), the whole call
SendIr ==
    /\ tx_pc \in {"idle", "returned"}
    /\ send_ret # "pending"
    /\ \E hex \in LifeArgs, rp \in RepeatArgs, fault \in Faults :
          LET create == NeedsNewSender(sender_instance)
              init_fails == create /\ fault = "in_init"
              inst == IF create /\ ~init_fails THEN n_senders + 1
                      ELSE sender_instance
              parsed == ParseRepeats(rp)
              reached == ~init_fails /\ ~parsed.raises
              accepted == reached /\ Accepted(hex)
              tx_fault == accepted /\ fault = "in_transmit"
              raised == init_fails \/ parsed.raises \/ tx_fault
              played == IF accepted
                            THEN transmit_data(int16(hex.chars), parsed.n)
                            ELSE << >>
          IN  /\ create => n_senders < MaxSenders
              /\ n_senders' = IF create /\ ~init_fails THEN n_senders + 1
                               ELSE n_senders
              /\ sender_instance' = IF raised THEN 0 ELSE inst
              /\ pwm_deinits' = IF raised /\ inst # 0
                                    THEN Deinit(pwm_deinits, inst)
                                    ELSE pwm_deinits
              /\ last_call' = IF raised THEN "send_caught" ELSE "send_ok"
              /\ send_ret' = IF accepted /\ ~raised THEN "True" ELSE "False"
              /\ full_code_hex' = IF reached THEN hex ELSE full_code_hex
              /\ data_to_send' = IF accepted THEN int16(hex.chars)
                                  ELSE data_to_send
              /\ num_repeats' = IF accepted THEN parsed.n ELSE num_repeats
              /\ emitted' = IF tx_fault THEN SubSeq(played, 1, FaultAfter)
                             ELSE played
              /\ tx_pc' = IF accepted /\ ~raised THEN "returned" ELSE tx_pc
    /\ duty' = 0
    /\ UNCHANGED <<segs, rxvars, pollvars, chanvars, histvars, dechist>>

\* cleanup_ir_sender()
CleanupIrSender ==
    /\ tx_pc \in {"idle", "returned"}
    /\ send_ret # "pending"
    /\ sender_instance' = 0
    /\ pwm_deinits' = IF sender_instance # 0
                          THEN Deinit(pwm_deinits, sender_instance)
                          ELSE pwm_deinits
    /\ last_call' = "cleanup"
    /\ UNCHANGED <<n_senders, duty, tx_pc, segs, emitted, data_to_send,
                   num_repeats, apivars>>
    /\ UNCHANGED <<rxvars, pollvars, chanvars, histvars, dechist>>

---------------------------------------------------------------------------
(* IRReceiver.decode_nec                                                   *)

\* a _match whose bounds are exclusive
matchExclusive(measured, expected) ==
    /\ (expected - TOLERANCE_US) < measured
    /\ measured < (expected + TOLERANCE_US)

\* _match
match(measured, expected) ==
    /\ (expected - TOLERANCE_US) <= measured
    /\ measured <= (expected + TOLERANCE_US)

\* the hexadecimal digits of n, most significant first, as {n:0<width>X} prints
\* them for n < 16^width
RECURSIVE HexDigits(_, _)
HexDigits(n, width) ==
    IF width = 0 THEN << >>
    ELSE Append(HexDigits(n \div 16, width - 1), n % 16)

\* f"ADDR: {addr:02X}, CMD: {cmd:02X} (Full: {val:08X})": the digits it prints
decoded_str(val) ==
    LET addr == (val.hi \div 256) % 256      \* (val >> 24) & 0xFF
        cmd  == (val.lo \div 256) % 256      \* (val >> 8) & 0xFF
    IN  HexDigits(addr, 2) \o HexDigits(cmd, 2)
        \o HexDigits(val.hi, 4) \o HexDigits(val.lo, 4)

\* the 8 digits of {val:08X} inside a decoded string
FullOf(str) == SubSeq(str, 5, 12)

ReturnNone == [kind |-> "None", str |-> << >>]
ReturnRepeat == [kind |-> "REPEAT", str |-> << >>]
ReturnCommand(str) == [kind |-> "Command", str |-> str]

\* one turn of `for i in range(32)`: the mark at 2 + 2i must match, the
\* space after it selects the bit (p is 1-based here); -1: return None
BitOfPulses(p, i) ==
    LET mark_idx == 2 + i * 2
        space_idx == mark_idx + 1
        current_mark == p[mark_idx + 1]
        current_space == p[space_idx + 1]
    IN  IF ~match(current_mark, NEC_BIT_MARK) THEN -1
        ELSE IF match(current_space, NEC_ONE_SPACE) THEN 1
        ELSE IF match(current_space, NEC_ZERO_SPACE) THEN 0
        ELSE -1

\* sixteen turns of `val <<= 1; val |= bit` starting at turn `from`: the
\* bit of turn from + k ends up with weight 2^(15 - k) in its half of val
HalfOfVal(bits, from) ==
    LET W(k) == bits[from + k] * Pow2(15 - k)
    IN  W(0) + W(1) + W(2) + W(3) + W(4) + W(5) + W(6) + W(7)
        + W(8) + W(9) + W(10) + W(11) + W(12) + W(13) + W(14) + W(15)

\* the whole loop.  Yields <<ok, val>>; ok is FALSE when some turn returns None
DecodeBits(p) ==
    LET bits == [i \in 0..(NEC_BITS - 1) |-> BitOfPulses(p, i)]
    IN  IF \E i \in 0..(NEC_BITS - 1) : bits[i] = -1
            THEN <<FALSE, Word(0, 0)>>
            ELSE <<TRUE, Word(HalfOfVal(bits, 0), HalfOfVal(bits, 16))>>

\* a decoder that drops every long pulse in front of the frame
RECURSIVE TrimIdleAll(_)
TrimIdleAll(ps) ==
    IF ps # << >> /\ ps[1] > INITIAL_IDLE_THRESHOLD_US
        THEN TrimIdleAll(Tail(ps))
        ELSE ps

\* a decoder that keeps the initial idle time
TrimIdleNever(ps) == ps

\* pulses.pop(0) when the first pulse is initial idle time
TrimIdle(ps) ==
    IF ps # << >> /\ ps[1] > INITIAL_IDLE_THRESHOLD_US THEN Tail(ps) ELSE ps

\* a decoder that takes only a snapshot of exactly three pulses for a repeat
IsRepeatShapeOfThree(p) ==
    /\ Len(p) = 3
    /\ match(p[1], NEC_HDR_MARK)
    /\ match(p[2], NEC_RPT_SPACE)
    /\ match(p[3], NEC_BIT_MARK)

\* the repeat-code test of decode_nec on the trimmed pulses
IsRepeatShape(p) ==
    /\ Len(p) >= 3
    /\ match(p[1], NEC_HDR_MARK)
    /\ match(p[2], NEC_RPT_SPACE)
    /\ match(p[3], NEC_BIT_MARK)

\* a decoder whose repeat window never closes
RepeatAcceptedAnyTime(last_hex, elapsed_ms) == last_hex # << >>

\* a decoder whose repeat window is two delays
RepeatAcceptedTwoDelays(last_hex, elapsed_ms) ==
    last_hex # << >> /\ elapsed_ms < repeat_delay_ms * 2

\* the repeat window: last_code_hex is set and the elapsed ms are under 3 delays
RepeatAccepted(last_hex, elapsed_ms) ==
    last_hex # << >> /\ elapsed_ms < repeat_delay_ms * 3

\* a decoder that answers REPEAT without restamping last_code_time_ms
RepeatResultNoStamp(last_hex) ==
    [ret |-> ReturnRepeat, hex |-> last_hex, stamp |-> FALSE]

\* a confirmed repeat: last_code_time_ms = current_time_ms; return "REPEAT"
RepeatResult(last_hex) ==
    [ret |-> ReturnRepeat, hex |-> last_hex, stamp |-> TRUE]

\* a decoder that also asks for the stop mark
TooFewForBitsAndStop(p) == Len(p) < 2 + NEC_BITS * 2 + 1

\* if len(pulses) < (2 + 32 * 2): return None
TooFewForBits(p) == Len(p) < 2 + NEC_BITS * 2

\* decode_nec after the critical section.  ps: the snapshot; last_hex:
\* self.last_code_hex; elapsed_ms: ticks_diff(ticks_ms(), last_code_time_ms).
\* Yields the return value, the new last_code_hex, and whether
\* last_code_time_ms is set to the current time.
decode_pulses(ps, last_hex, elapsed_ms) ==
    LET p == TrimIdle(ps)
        none == [ret |-> ReturnNone, hex |-> last_hex, stamp |-> FALSE]
    IN  IF ps = << >> THEN none
        ELSE IF p = << >> THEN none
        ELSE IF Len(p) < 2 THEN none
        ELSE IF IsRepeatShape(p)
            THEN IF RepeatAccepted(last_hex, elapsed_ms)
                     THEN RepeatResult(last_hex)
                     ELSE none
        ELSE IF ~match(p[1], NEC_HDR_MARK) THEN none
        ELSE IF ~match(p[2], NEC_HDR_SPACE) THEN none
        ELSE IF TooFewForBits(p) THEN none
        ELSE LET r == DecodeBits(p)
             IN  IF ~r[1] THEN none
                 ELSE [ret |-> ReturnCommand(decoded_str(r[2])),
                       hex |-> decoded_str(r[2]), stamp |-> TRUE]

---------------------------------------------------------------------------
(* IRReceiver._ir_event_handler                                            *)

\* a handler that lets the buffer grow one past its capacity
BufferFullLate(buf) == Len(buf) > MAX_PULSES

\* if len(self.buffer) >= self.MAX_PULSES
BufferFull(buf) == Len(buf) >= MAX_PULSES

\* a handler that evicts only the oldest pulse on overflow
OverflowEvictOldest(buf) == Tail(buf)

\* self.buffer.clear() on overflow: what is left of the buffer
OverflowBuffer(buf) == << >>

\* a handler whose Condition 1 asks for the idle (HIGH) level after the edge
LongSpaceEndedIdleLevel(pin, d, len) ==
    pin = 1 /\ d > LONG_SPACE_US /\ len > MIN_GAP_PULSES

\* Condition 1 of the end-of-message heuristic, after the append
LongSpaceEnded(pin, d, len) ==
    pin = 0 /\ d > LONG_SPACE_US /\ len > MIN_GAP_PULSES

\* Condition 2: more than 2 + 32 * 2 + 1 pulses, after the append
FrameCountReached(len) == len > FULL_FRAME_PULSES

\* new_data_available after a record was appended
ReadyAfterRecord(flag, pin, d, len) ==
    flag \/ LongSpaceEnded(pin, d, len) \/ FrameCountReached(len)

ReadySource(old, pin, d, len) ==
    IF LongSpaceEnded(pin, d, len) THEN "irq_gap"
    ELSE IF FrameCountReached(len) THEN "irq_count"
    ELSE old

Sat(x, cap) == IF x > cap THEN cap ELSE x

\* the clock advances by dt microseconds
Advance(dt) ==
    /\ since_code_us' = Sat(since_code_us + dt, CodeCapUs)
    /\ since_command_us' = Sat(since_command_us + dt, CodeCapUs)
    /\ since_repeat_us' = Sat(since_repeat_us + dt, CodeCapUs)

\* One call of _ir_event_handler, dt microseconds after the clock reading of
\* the state, with the pin reading `pin` after the edge; tag names the pulse.
HandlerCall(dt, pin, tag) ==
    LET d == Sat(since_edge_us + dt, IdleCapUs)
    IN  /\ pulse_duration' = d
        /\ since_edge_us' = 0                       \* last_time_us = current_time_us
        /\ current_pin_value' = pin
        /\ Advance(dt)
        /\ IF d < GLITCH_US
             THEN UNCHANGED <<buffer, new_data_available, histvars>>
           ELSE IF BufferFull(buffer)
             THEN /\ buffer' = OverflowBuffer(buffer)
                  /\ buffer_tag' = SubSeq(buffer_tag,
                                          Len(buffer) - Len(buffer') + 1,
                                          Len(buffer))
                  /\ n_since_snap' = Sat(n_since_snap + 1, MAX_PULSES + 2)
                  /\ UNCHANGED <<new_data_available, pulses_tag, ready_src>>
           ELSE /\ buffer' = Append(buffer, d)
                /\ buffer_tag' = Append(buffer_tag, tag)
                /\ new_data_available' =
                       ReadyAfterRecord(new_data_available, pin, d, Len(buffer) + 1)
                /\ ready_src' =
                       IF new_data_available THEN ready_src
                       ELSE ReadySource(ready_src, pin, d, Len(buffer) + 1)
                /\ n_since_snap' = Sat(n_since_snap + 1, MAX_PULSES + 2)
                /\ UNCHANGED pulses_tag

---------------------------------------------------------------------------
(* The IR channel.  The receiver pin falls when a mark starts and rises    *)
(* when it ends: every mark gives two edges, spaces and frame gaps only    *)
(* let time pass.  An edge is <<dt, pin, f>>: it arrives dt microseconds   *)
(* after the edge before it, leaves the pin at `pin`, and the pulse it     *)
(* closes belongs to frame f of the transmission (0: the silence before a  *)
(* frame).                                                                 *)
\* sleep_us / sleep_ms of a space or gap segment, in microseconds
SilenceUs(seg) == IF seg[1] = "gap" THEN seg[2] * 1000 ELSE seg[2]

RECURSIVE SilenceBetween(_, _, _)
SilenceBetween(sg, from, to) ==
    IF from > to THEN 0
    ELSE SilenceUs(sg[from]) + SilenceBetween(sg, from + 1, to)

Edges(sg) ==
    LET IsMark(k) == sg[k][1] = "mark"
        marks == SelectSeq([k \in 1..Len(sg) |-> k], IsMark)
        GapsBefore(m) == Cardinality({k \in 1..m : sg[k][1] = "gap"})
        Prev(j) == IF j = 1 THEN 0 ELSE marks[j - 1]
        NewFrame(j) == j = 1 \/ GapsBefore(marks[j]) > GapsBefore(Prev(j))
    IN  [e \in 1..(2 * Len(marks)) |->
            LET j == (e + 1) \div 2
                f == GapsBefore(marks[j]) + 1
            IN  IF e % 2 = 1
                    THEN <<SilenceBetween(sg, Prev(j) + 1, marks[j] - 1),
                           PIN_ACTIVE, IF NewFrame(j) THEN 0 ELSE f>>
                    ELSE <<sg[marks[j]][2], PIN_IDLE, f>>]

\* the edges of one _transmit_data(data, n) call
SendEdges(data, n) == Edges(transmit_data(data, n))

\* the pulse durations the edges of a transmission close, without the silence
\* before its first mark
PulsesOf(edges) == [k \in 1..(Len(edges) - 1) |-> edges[k + 1][1]]

---------------------------------------------------------------------------
InitWith(budget) ==
    /\ buffer = << >>
    /\ new_data_available = FALSE
    /\ last_code_hex = << >>
    /\ since_edge_us = 0
    /\ since_code_us = CodeCapUs
    /\ pulse_duration = 0
    /\ current_pin_value = PIN_IDLE
    /\ pc = "loop"
    /\ pulses = << >>
    /\ decoded_code = ReturnNone
    /\ script = << >>
    /\ tx_left = budget
    /\ cur_tx = 0
    /\ sent = << >>
    /\ buffer_tag = << >>
    /\ pulses_tag = << >>
    /\ n_since_snap = 0
    /\ ready_src = "none"
    /\ cmd_seen = FALSE
    /\ recent = << >>
    /\ since_command_us = CodeCapUs
    /\ since_repeat_us = CodeCapUs
    /\ duty = 0
    /\ tx_pc = "idle"
    /\ segs = << >>
    /\ emitted = << >>
    /\ data_to_send = Word(0, 0)
    /\ num_repeats = 0
    /\ full_code_hex = NotAString
    /\ send_ret = "none"
    /\ sender_instance = 0
    /\ n_senders = 0
    /\ pwm_deinits = [id \in 1..MaxSenders |-> 0]
    /\ last_call = "none"

Init == InitWith(MaxTx)

---------------------------------------------------------------------------
(* Transmissions heard by the receiver in Spec: <<code, edges>>.          *)
RxFrames == { Word(30345, 4335) }

\* a frame cut short after PartialEdges edges (the beam is interrupted),
\* then stray light: a mark of just over 30 ms
Disturbed ==
    SubSeq(SendEdges(Word(30345, 4335), 0), 1, PartialEdges)
    \o << <<NEC_ZERO_SPACE_US, PIN_ACTIVE, 1>>,
          <<LONG_SPACE_US + 1, PIN_IDLE, 1>> >>

Transmissions ==
    { <<f, SendEdges(f, n)>> : f \in RxFrames, n \in 0..RxMaxRepeats }
    \cup { << << >>, Disturbed >> }

\* time passes on an idle channel in steps of one frame gap
IdleStepUs == NEC_FRAME_GAP_MS * 1000

\* a decode_nec that leaves interrupts enabled in its critical section
IrqNeverMasked == FALSE

\* machine.disable_irq() ... machine.enable_irq(irq_state): no handler call
\* between the copy of the buffer and its clear
IrqMasked == pc = "crit"

\* a decode_nec that leaves the newest pulse in the buffer
ClearedButNewest(buf) == IF buf = << >> THEN << >> ELSE <<buf[Len(buf)]>>

\* self.buffer.clear() in decode_nec: what is left of the buffer
ClearedBuffer(buf) == << >>

\* a transmission starts
StartTx ==
    /\ script = << >>
    /\ tx_left > 0
    /\ \E t \in Transmissions : sent' = t[1] /\ script' = t[2]
    /\ tx_left' = tx_left - 1
    /\ cur_tx' = cur_tx + 1
    /\ UNCHANGED <<rxvars, pollvars, histvars, dechist, txvars>>

\* the next edge of the transmission in flight interrupts the program
Edge ==
    /\ script # << >>
    /\ ~IrqMasked
    /\ LET e == Head(script)
       IN  HandlerCall(e[1], e[2], IF e[3] = 0 THEN <<0, 0>> ELSE <<cur_tx, e[3]>>)
    /\ script' = Tail(script)
    /\ UNCHANGED <<last_code_hex, pollvars, tx_left, cur_tx, sent, cmd_seen,
                   recent, txvars>>

\* no edge for one more frame gap
Idle ==
    /\ script = << >>
    /\ since_edge_us' = Sat(since_edge_us + IdleStepUs, IdleCapUs)
    /\ Advance(IdleStepUs)
    /\ UNCHANGED <<buffer, new_data_available, last_code_hex, pulse_duration,
                   current_pin_value, pollvars, chanvars, histvars, cmd_seen,
                   recent, txvars>>

---------------------------------------------------------------------------
(* The __main__ poll loop of ir_resv.py and decode_nec.                    *)

\* time.ticks_diff(current_time_us, ir.last_time_us) > 70000
FallbackIdle(idle_us) == idle_us > IDLE_TIMEOUT_US

\* a poll loop that forces a decode of any buffer, however short
FallbackEnoughAny(len) == TRUE

\* len(ir.buffer) > 10
FallbackEnough(len) == len > MIN_IDLE_PULSES

KeepLast2(q) == IF Len(q) > 2 THEN SubSeq(q, Len(q) - 1, Len(q)) ELSE q

\* while True: if ir.new_data_available:
PollLoop ==
    /\ pc = "loop"
    /\ pc' = IF new_data_available THEN "decode" ELSE "fallback"
    /\ UNCHANGED <<rxvars, pulses, decoded_code, chanvars, histvars, dechist,
                   txvars>>

\* decoded_code = ir.decode_nec(): new_data_available is still set (only
\* decode_nec clears it); irq_state = machine.disable_irq();
\* pulses = list(self.buffer)
Snapshot ==
    /\ pc = "decode"
    /\ new_data_available
    /\ pulses' = buffer
    /\ pulses_tag' = buffer_tag
    /\ pc' = "crit"
    /\ UNCHANGED <<rxvars, decoded_code, chanvars, buffer_tag, n_since_snap,
                   ready_src, dechist, txvars>>

\* self.buffer.clear(); self.new_data_available = False;
\* machine.enable_irq(irq_state); then the rest of decode_nec, which works on
\* the snapshot and on fields the handler never touches, up to its return
Decode ==
    /\ pc = "crit"
    /\ LET r == decode_pulses(pulses, last_code_hex, since_code_us \div 1000)
       IN  /\ decoded_code' = r.ret
           /\ last_code_hex' = r.hex
           /\ since_code_us' = IF r.stamp THEN 0 ELSE since_code_us
           /\ cmd_seen' = (cmd_seen \/ r.ret.kind = "Command")
           /\ recent' = IF r.ret.kind = "None" THEN recent
                        ELSE KeepLast2(Append(recent, r.ret))
           /\ since_command_us' =
                  IF r.ret.kind = "Command" THEN 0 ELSE since_command_us
           /\ since_repeat_us' =
                  IF r.ret.kind = "REPEAT" THEN 0 ELSE since_repeat_us
    /\ buffer' = ClearedBuffer(buffer)
    /\ buffer_tag' = SubSeq(buffer_tag, 1, Len(buffer'))
    /\ new_data_available' = FALSE
    /\ pulses' = << >>
    /\ pulses_tag' = << >>
    /\ n_since_snap' = 0
    /\ ready_src' = "none"
    /\ pc' = "fallback"
    /\ UNCHANGED <<since_edge_us, pulse_duration, current_pin_value, chanvars,
                   txvars>>

\* a caller invokes ir.decode_nec() without testing new_data_available
DirectCall ==
    /\ pc = "loop"
    /\ pc' = "decode"
    /\ UNCHANGED <<rxvars, pulses, decoded_code, chanvars, histvars, dechist,
                   txvars>>

\* decode_nec: if not self.new_data_available: return None
NotReadyReturn ==
    /\ pc = "decode"
    /\ ~new_data_available
    /\ decoded_code' = ReturnNone
    /\ pc' = "fallback"
    /\ UNCHANGED <<rxvars, pulses, chanvars, histvars, dechist, txvars>>

\* if not ir.new_data_available and len(ir.buffer) > 0:
Fallback1 ==
    /\ pc = "fallback"
    /\ pc' = IF ~new_data_available /\ Len(buffer) > 0 THEN "fb_time" ELSE "loop"
    /\ UNCHANGED <<rxvars, pulses, decoded_code, chanvars, histvars, dechist,
                   txvars>>

\* if time.ticks_diff(current_time_us, ir.last_time_us) > 70000:
Fallback2 ==
    /\ pc = "fb_time"
    /\ pc' = IF FallbackIdle(since_edge_us) THEN "fb_len" ELSE "loop"
    /\ UNCHANGED <<rxvars, pulses, decoded_code, chanvars, histvars, dechist,
                   txvars>>

\* if len(ir.buffer) > 10:
Fallback3 ==
    /\ pc = "fb_len"
    /\ pc' = IF FallbackEnough(Len(buffer)) THEN "fb_set" ELSE "loop"
    /\ UNCHANGED <<rxvars, pulses, decoded_code, chanvars, histvars, dechist,
                   txvars>>

\* ir.new_data_available = True
Fallback4 ==
    /\ pc = "fb_set"
    /\ new_data_available' = TRUE
    /\ ready_src' = IF new_data_available THEN ready_src ELSE "poll"
    /\ pc' = "loop"
    /\ UNCHANGED <<buffer, last_code_hex, since_edge_us, since_code_us,
                   pulse_duration, current_pin_value, pulses, decoded_code,
                   chanvars, buffer_tag, pulses_tag, n_since_snap, dechist,
                   txvars>>

Next ==
    \/ StartTx
    \/ Edge
    \/ Idle
    \/ PollLoop
    \/ Snapshot
    \/ Decode
    \/ Fallback1
    \/ Fallback2
    \/ Fallback3
    \/ Fallback4

Spec == Init /\ [][Next]_vars

---------------------------------------------------------------------------
(* SpecFair: the poll loop is a `while True` that keeps running, edges of  *)
(* a transmission in flight keep arriving, and the clock keeps advancing.  *)
PollStep ==
    PollLoop \/ Snapshot \/ Decode \/ Fallback1 \/ Fallback2 \/ Fallback3
    \/ Fallback4

InitFair == InitWith(FairTx)

SpecFair ==
    /\ InitFair
    /\ [][Next]_vars
    /\ WF_vars(PollStep)
    /\ WF_vars(Edge)
    /\ WF_vars(Idle)

---------------------------------------------------------------------------
(* SpecLoop: one _transmit_data(F, 0) of the sender heard by a fresh      *)
(* receiver over a channel without jitter.                                 *)
StartLoopback ==
    /\ script = << >>
    /\ tx_left > 0
    /\ \E f \in Frames : sent' = f /\ script' = SendEdges(f, 0)
    /\ tx_left' = tx_left - 1
    /\ cur_tx' = cur_tx + 1
    /\ UNCHANGED <<rxvars, pollvars, histvars, dechist, txvars>>

InitLoop == InitWith(1)

NextLoop ==
    \/ StartLoopback
    \/ Edge
    \/ Idle
    \/ PollLoop
    \/ Snapshot
    \/ Decode
    \/ Fallback1
    \/ Fallback2
    \/ Fallback3
    \/ Fallback4

SpecLoop == InitLoop /\ [][NextLoop]_vars

---------------------------------------------------------------------------
(* SpecDec: decode_nec on complete captures.  A capture is the buffer the  *)
(* handler has filled by the time it raises new_data_available; between    *)
(* captures the clock advances by whole milliseconds.                      *)
FrameA == Word(30345, 4335)
FrameB == Word(30345, 53295)

RepeatPulses == <<NEC_RPT_HDR_MARK_US, NEC_RPT_SPACE_US, NEC_RPT_BIT_MARK_US>>

DecSnapshots ==
    { PulsesOf(SendEdges(FrameA, 0)),
      PulsesOf(SendEdges(FrameB, 0)),
      RepeatPulses,
      <<NEC_FRAME_GAP_MS * 1000>> \o RepeatPulses,
      <<NEC_BIT_MARK_US, NEC_ZERO_SPACE_US>> }

\* the waits between captures, in ms: one repeat delay, and the two sides
\* of the repeat window
TickStepsMs == { repeat_delay_ms, 3 * repeat_delay_ms - 1, 3 * repeat_delay_ms + 1 }

\* the handler has captured s and raised new_data_available
Capture ==
    /\ buffer = << >>
    /\ ~new_data_available
    /\ \E s \in DecSnapshots :
          /\ buffer' = s
          /\ buffer_tag' = [k \in 1..Len(s) |-> <<1, 1>>]
          /\ pulse_duration' = s[Len(s)]
          /\ n_since_snap' = Len(s)
    /\ new_data_available' = TRUE
    /\ ready_src' = "irq_count"
    /\ since_edge_us' = 0
    /\ UNCHANGED <<last_code_hex, since_code_us, current_pin_value, pollvars,
                   chanvars, pulses_tag, dechist, txvars>>

\* time.sleep_ms and idle waiting: the clock advances
Tick ==
    /\ \E ms \in TickStepsMs :
          /\ Advance(ms * 1000)
          /\ since_edge_us' = Sat(since_edge_us + ms * 1000, IdleCapUs)
    /\ UNCHANGED <<buffer, new_data_available, last_code_hex, pulse_duration,
                   current_pin_value, pollvars, chanvars, histvars, cmd_seen,
                   recent, txvars>>

NextDec ==
    \/ Capture
    \/ Tick
    \/ PollLoop
    \/ Snapshot
    \/ Decode
    \/ Fallback1

SpecDec == Init /\ [][NextDec]_vars

---------------------------------------------------------------------------
(* SpecSnap: decode_nec on captures that differ from a frame of the sender *)
(* in one duration, in their length, or in what precedes the header.       *)
(* The empty capture is the buffer an overflow has cleared while           *)
(* new_data_available was set.                                             *)

\* the pulses of _transmit_data(768910EF, 0): header, 32 bits, stop mark
FramePulses == PulsesOf(SendEdges(FrameA, 0))

\* ps with its k-th duration replaced by v
Vary(ps, k, v) == [ps EXCEPT ![k] = v]

\* what the decoder expects at places 1, 2, 3, 4 and 6 of FramePulses: header
\* mark, header space, bit mark, the space of bit 31 (0), the space of bit 30 (1)
ExpectedAt ==
    (1 :> NEC_HDR_MARK) @@ (2 :> NEC_HDR_SPACE) @@ (3 :> NEC_BIT_MARK)
    @@ (4 :> NEC_ZERO_SPACE) @@ (6 :> NEC_ONE_SPACE)

\* deviations around the tolerance
Deviations ==
    { -(TOLERANCE_US + EdgeMargin), -TOLERANCE_US, -(TOLERANCE_US - EdgeMargin),
      TOLERANCE_US - EdgeMargin, TOLERANCE_US, TOLERANCE_US + EdgeMargin }

\* a first pulse the decoder takes for the idle time before a frame
LeadIn == INITIAL_IDLE_THRESHOLD_US + LeadInExcess

SnapSnapshots ==
    { FramePulses, << >> }
    \cup { Vary(FramePulses, k, ExpectedAt[k] + d) :
               k \in DOMAIN ExpectedAt, d \in Deviations }
    \cup { <<NEC_HDR_MARK, NEC_RPT_SPACE + d, NEC_BIT_MARK>> :
               d \in Deviations \cup {0} }
    \cup { <<LeadIn>> \o FramePulses,
           <<LeadIn>>,
           <<INITIAL_IDLE_THRESHOLD_US>> \o FramePulses,
           <<INITIAL_IDLE_THRESHOLD_US + 1>> \o FramePulses,
           <<LeadIn, LeadIn>> \o FramePulses,
           <<LeadIn>> \o RepeatPulses }
    \cup { SubSeq(FramePulses, 1, n) :
               n \in { 1, 2, 2 + NEC_BITS * 2 - 1, 2 + NEC_BITS * 2 } }
    \cup { <<LeadIn>> \o SubSeq(FramePulses, 1, 2 + NEC_BITS * 2) }
    \cup { RepeatPulses \o SubSeq(FramePulses, 4, Len(FramePulses)) }

\* the handler has captured s and raised new_data_available
CaptureSnap ==
    /\ buffer = << >>
    /\ ~new_data_available
    /\ \E s \in SnapSnapshots :
          /\ buffer' = s
          /\ buffer_tag' = [k \in 1..Len(s) |-> <<1, 1>>]
          /\ pulse_duration' = IF s = << >> THEN pulse_duration ELSE s[Len(s)]
          /\ n_since_snap' = Len(s)
    /\ new_data_available' = TRUE
    /\ ready_src' = "irq_count"
    /\ since_edge_us' = 0
    /\ UNCHANGED <<last_code_hex, since_code_us, current_pin_value, pollvars,
                   chanvars, pulses_tag, dechist, txvars>>

\* the clock advances by two repeat delays
TickSnap ==
    /\ Advance(2 * repeat_delay_ms * 1000)
    /\ since_edge_us' = Sat(since_edge_us + 2 * repeat_delay_ms * 1000, IdleCapUs)
    /\ UNCHANGED <<buffer, new_data_available, last_code_hex, pulse_duration,
                   current_pin_value, pollvars, chanvars, histvars, cmd_seen,
                   recent, txvars>>

NextSnap ==
    \/ CaptureSnap
    \/ TickSnap
    \/ PollLoop
    \/ DirectCall
    \/ NotReadyReturn
    \/ Snapshot
    \/ Decode
    \/ Fallback1

SpecSnap == Init /\ [][NextSnap]_vars

---------------------------------------------------------------------------
(* SpecNoise: the receiver under stray light: edges that come 99 or 100 us *)
(* after one another, in any order, while the poll loop runs.              *)
NoiseDts == { GLITCH_US - 1, GLITCH_US }

\* an edge interrupts the program; the pin has changed level
NoiseEdge ==
    /\ ~IrqMasked
    /\ \E dt \in NoiseDts : HandlerCall(dt, 1 - current_pin_value, <<0, 0>>)
    /\ UNCHANGED <<last_code_hex, pollvars, chanvars, cmd_seen, recent, txvars>>

NextNoise ==
    \/ NoiseEdge
    \/ PollLoop
    \/ Snapshot
    \/ Decode
    \/ Fallback1
    \/ Fallback2

SpecNoise == Init /\ [][NextNoise]_vars

---------------------------------------------------------------------------
(* SpecCall: SpecLoop with a caller that may invoke decode_nec at any turn *)
(* of the loop, whether new_data_available is set or not.                  *)
InitCall == InitWith(1)

NextCall ==
    \/ StartLoopback
    \/ Edge
    \/ Idle
    \/ PollLoop
    \/ DirectCall
    \/ NotReadyReturn
    \/ Snapshot
    \/ Decode
    \/ Fallback1
    \/ Fallback2
    \/ Fallback3
    \/ Fallback4

SpecCall == InitCall /\ [][NextCall]_vars

---------------------------------------------------------------------------
(* SpecLife: any sequence of send_ir and cleanup_ir_sender calls.          *)
NextLife ==
    \/ SendIr
    \/ CleanupIrSender

SpecLife == Init /\ [][NextLife]_vars

---------------------------------------------------------------------------
NextTx ==
    \/ TransmitCall
    \/ MarkOn
    \/ MarkOff
    \/ SpaceStep
    \/ GapStep
    \/ TransmitReturn

SpecTx == Init /\ [][NextTx]_vars

---------------------------------------------------------------------------
(* SpecApi: one send_full_nec_hex call that transmits, any number that do  *)
(* not, and a fresh receiver that hears what the sender played.            *)

\* the receiver hears the segments the call has played
Loopback ==
    /\ send_ret = "True"
    /\ script = << >>
    /\ cur_tx = 0
    /\ script' = Edges(emitted)
    /\ sent' = data_to_send
    /\ cur_tx' = 1
    /\ UNCHANGED <<rxvars, pollvars, histvars, dechist, txvars, tx_left>>

InitApi == InitWith(1)

NextApi ==
    \/ SendFullNecHex
    \/ MarkOn
    \/ MarkOff
    \/ SpaceStep
    \/ GapStep
    \/ TransmitReturn
    \/ SendReturn
    \/ Loopback
    \/ Edge
    \/ Idle
    \/ PollLoop
    \/ Snapshot
    \/ Decode
    \/ Fallback1
    \/ Fallback2
    \/ Fallback3
    \/ Fallback4

SpecApi == InitApi /\ [][NextApi]_vars

---------------------------------------------------------------------------
(* Properties of the sender (SpecTx).                                      *)

Returned == tx_pc = "returned"

\* bit n of a word, by repeated halving
RECURSIVE Halved(_, _)
Halved(x, n) == IF n = 0 THEN x ELSE Halved(x \div 2, n - 1)
WordBit(w, n) == IF n >= 16 THEN Halved(w.hi, n - 16) % 2 ELSE Halved(w.lo, n) % 2

\* the 68 segments of a data frame, as the NEC frame layout states them
IsDataFrame(e, w) ==
    /\ Len(e) >= 68
    /\ e[1] = <<"mark", 9000>>
    /\ e[2] = <<"space", 4500>>
    /\ \A i \in 0..31 :
          /\ e[3 + 2 * i] = <<"mark", 560>>
          /\ e[4 + 2 * i] = <<"space", IF WordBit(w, 31 - i) = 1 THEN 1690 ELSE 560>>
    /\ e[67] = <<"mark", 560>>
    /\ e[68] = <<"space", 0>>

\* 768910EF, most significant bit first
Bits768910EF ==
    << 0,1,1,1, 0,1,1,0, 1,0,0,0, 1,0,0,1,
       0,0,0,1, 0,0,0,0, 1,1,1,0, 1,1,1,1 >>

\* C9: a call of _transmit_data with 0 repeats that has returned has emitted
\* exactly the 68 segments of the data frame (header mark 9000 and space 4500,
\* for bit 31 down to bit 0 a mark 560 and a space 1690 or 560, the final
\* mark 560 and space 0), then one 40 ms gap and nothing else; for 768910EF
\* the 32 spaces follow the bits 0111 0110 1000 1001 0001 0000 1110 1111.
C9_FrameShape ==
    (Returned /\ num_repeats = 0) =>
        /\ Len(emitted) = 69
        /\ IsDataFrame(emitted, data_to_send)
        /\ emitted[69] = <<"gap", 40>>
        /\ \A k \in 1..68 : emitted[k][1] = (IF k % 2 = 1 THEN "mark" ELSE "space")
        /\ data_to_send = Word(30345, 4335) =>
               \A i \in 1..32 :
                   emitted[2 + 2 * i] =
                       <<"space", IF Bits768910EF[i] = 1 THEN 1690 ELSE 560>>

C9_Witness ==
    /\ Returned
    /\ num_repeats = 0
    /\ data_to_send = Word(30345, 4335)
    /\ Len(emitted) = 69

\* C10: a call of _transmit_data with N repeats that has returned has emitted
\* the 68-segment data frame, then N times a 40 ms wait followed by the four
\* segments mark 9000, space 2250, mark 560, space 0, then one final 40 ms gap.
C10_Repeats ==
    Returned =>
        /\ Len(emitted) = 68 + 5 * num_repeats + 1
        /\ IsDataFrame(emitted, data_to_send)
        /\ \A k \in 1..num_repeats :
              LET b == 68 + 5 * (k - 1)
              IN  /\ emitted[b + 1] = <<"gap", 40>>
                  /\ emitted[b + 2] = <<"mark", 9000>>
                  /\ emitted[b + 3] = <<"space", 2250>>
                  /\ emitted[b + 4] = <<"mark", 560>>
                  /\ emitted[b + 5] = <<"space", 0>>
        /\ emitted[Len(emitted)] = <<"gap", 40>>

C10_Witness ==
    /\ Returned
    /\ num_repeats = 2
    /\ Len(emitted) = 79
    /\ emitted[74] = <<"gap", 40>>

---------------------------------------------------------------------------
(* Properties of the loopback (SpecLoop).                                  *)

\* the eight digits of the code w, as {w:08X} prints them
HexOfWord(w) == HexDigits(w.hi, 4) \o HexDigits(w.lo, 4)

\* decode_nec holds its snapshot
Decoding == pc = "crit"

\* the step in which decode_nec decodes its snapshot and returns
DecodeReturns == pc = "crit" /\ pc' # "crit"

\* C1: when _transmit_data(F, 0) is looped back without jitter into a fresh
\* receiver, every decode_nec call the poll loop makes once readiness is set
\* returns a Command whose 32-bit value is F.
C1_RoundTrip ==
    [][DecodeReturns =>
          /\ decoded_code'.kind = "Command"
          /\ FullOf(decoded_code'.str) = HexOfWord(sent)]_vars

\* 80000001 came back, the silence before the frame included
C1_Witness ==
    /\ decoded_code.kind = "Command"
    /\ FullOf(decoded_code.str) = <<8, 0, 0, 0, 0, 0, 0, 1>>
    /\ sent = Word(32768, 1)
    /\ pulse_duration = NEC_BIT_MARK_US
    /\ script = << >>

---------------------------------------------------------------------------
(* Properties of decode_nec's repeat window (SpecDec).                     *)

\* the snapshot decode_nec works on has the repeat shape
RepeatShaped == IsRepeatShape(TrimIdle(pulses))

TwoSameCommands ==
    /\ Len(recent) = 2
    /\ recent[1].kind = "Command"
    /\ recent[2] = recent[1]

\* C3: after two Command decodes of the same frame, a repeat-shaped snapshot
\* decoded 449 ms or less after the second yields REPEAT, and one decoded
\* 451 ms or more after it yields None.
C3_WindowBoundary ==
    [][(DecodeReturns /\ RepeatShaped /\ TwoSameCommands) =>
          /\ since_command_us <= 449 * 1000 => decoded_code'.kind = "REPEAT"
          /\ since_command_us >= 451 * 1000 => decoded_code'.kind = "None"]_vars

C3_Witness ==
    /\ Decoding
    /\ RepeatShaped
    /\ TwoSameCommands
    /\ since_command_us = 449 * 1000

---------------------------------------------------------------------------
(* Properties of the capture path under interleaving (Spec, SpecFair).     *)

\* a handler call that appended its pulse
AcceptedRecord == script' # script /\ buffer' = Append(buffer, pulse_duration')

\* a handler call that found the buffer at capacity
OverflowRecord == script' # script /\ Len(buffer) >= 100 /\ buffer' = << >>

\* decode_nec takes its snapshot
SnapshotTaken == pc # "crit" /\ pc' = "crit"

\* C4: the hand-off of the buffer is race-free.  The snapshot is the whole
\* buffer in arrival order and stays so until the buffer is cleared; every
\* step either leaves the buffer alone, appends the new pulse at its end,
\* clears it on overflow, or hands it whole to the decoder; and when the
\* critical section ends the buffer is empty and new_data_available is false.
C4_RaceFreeHandOff ==
    /\ [](Decoding => pulses = buffer)
    /\ [][SnapshotTaken => (pulses' = buffer /\ buffer' = buffer)]_vars
    /\ [][\/ buffer' = buffer
          \/ AcceptedRecord
          \/ OverflowRecord
          \/ (DecodeReturns /\ pulses = buffer /\ buffer' = << >>)]_vars
    /\ [][DecodeReturns => (buffer' = << >> /\ ~new_data_available')]_vars

\* a snapshot was taken in the middle of a transmission: the next edge waits
\* for the critical section to end
C4_Witness ==
    /\ Decoding
    /\ script # << >>
    /\ Len(pulses) > FULL_FRAME_PULSES
    /\ cur_tx = 2

\* the transmissions the pulses of a snapshot belong to (0: silence between)
TransmissionsIn(tags) == { tags[k][1] : k \in 1..Len(tags) } \ {0}

\* C5: the pulses of one snapshot all belong to a single transmission.
C5_NoStraddle == Decoding => Cardinality(TransmissionsIn(pulses_tag)) <= 1

\* a snapshot holding pulses of two transmissions is being decoded
C5_Witness == Decoding /\ Cardinality(TransmissionsIn(pulses_tag)) = 2

\* C6: of 101 records in one burst into an empty buffer, the first 100 are
\* appended, the 101st clears the buffer and is dropped, and a decode_nec
\* call at that point returns None.
C6_Overflow ==
    /\ [](n_since_snap <= 100 => Len(buffer) = n_since_snap)
    /\ [](n_since_snap = 101 => buffer = << >>)
    /\ [][(DecodeReturns /\ n_since_snap = 101) =>
             decoded_code'.kind = "None"]_vars

C6_Witness ==
    /\ Decoding
    /\ n_since_snap = 101
    /\ pulses = << >>

\* C7 (as the code has it): on every accepted record new_data_available is
\* true afterwards exactly when it was true before, or the pin reads 0 after
\* the edge (the active level of the receiver) and the pulse exceeds 30000 us
\* and the buffer holds more than 30 pulses, or the buffer holds more than 67.
C7_ReadinessOnActiveLevel ==
    [][AcceptedRecord =>
          (new_data_available' <=>
              \/ new_data_available
              \/ /\ current_pin_value' = 0
                 /\ pulse_duration' > 30000
                 /\ Len(buffer') > 30
              \/ Len(buffer') > 67)]_vars

\* C7 as stated: the level after the edge is the idle level (1, pulled up)
C7_ReadinessOnIdleLevel ==
    [][AcceptedRecord =>
          (new_data_available' <=>
              \/ new_data_available
              \/ /\ current_pin_value' = 1
                 /\ pulse_duration' > 30000
                 /\ Len(buffer') > 30
              \/ Len(buffer') > 67)]_vars

\* Condition 1 alone has raised the flag
C7_Witness ==
    /\ new_data_available
    /\ ready_src = "irq_gap"
    /\ current_pin_value = 0
    /\ pulse_duration > 30000
    /\ Len(buffer) > 30
    /\ Len(buffer) <= 67

\* the poll loop raises new_data_available
FallbackRaises ==
    pc = "fb_set" /\ pc' = "loop" /\ ~new_data_available /\ new_data_available'

\* C8: once new_data_available is false, the buffer holds more than 10 pulses
\* and the last edge is more than 70000 us old, new_data_available becomes
\* true; once it is true decode_nec takes its snapshot; and the poll loop
\* raises it only over a buffer of more than 10 pulses.
C8_Fallback ==
    /\ (~new_data_available /\ Len(buffer) > 10 /\ since_edge_us > 70000)
           ~> new_data_available
    /\ new_data_available ~> Decoding
    /\ [][FallbackRaises => Len(buffer) > 10]_vars

\* the poll loop has raised the flag over a buffer no handler call flagged
C8_Witness ==
    /\ new_data_available
    /\ ready_src = "poll"
    /\ Len(buffer) > 10
    /\ Len(buffer) <= 67
    /\ since_edge_us > 70000

---------------------------------------------------------------------------
(* Further properties of the sender (SpecTx).                              *)

\* the number of time.sleep_ms waits among the segments e
GapCount(e) == Cardinality({k \in 1..Len(e) : e[k][1] = "gap"})

\* C11: a call of _transmit_data with N repeats that has returned has made
\* N + 1 waits of 40 ms, one before each repeat frame and one after the last
\* frame; each wait follows the space(0) that ends a frame, and each wait but
\* the last is followed at once by the mark(9000) of the next frame, so
\* consecutive frames are 40 ms apart.
C11_GapsAsCoded ==
    Returned =>
        /\ GapCount(emitted) = num_repeats + 1
        /\ \A k \in 2..Len(emitted) :
              emitted[k][1] = "gap" =>
                  /\ emitted[k] = <<"gap", 40>>
                  /\ emitted[k - 1] = <<"space", 0>>
                  /\ k < Len(emitted) => emitted[k + 1] = <<"mark", 9000>>

\* the sequence as stated: 1 + 2N waits of 40 ms
C11_GapsAsStated ==
    Returned => GapCount(emitted) = 1 + 2 * num_repeats

C11_Witness ==
    /\ Returned
    /\ num_repeats = 2
    /\ GapCount(emitted) = 3
    /\ emitted[69] = <<"gap", 40>>
    /\ emitted[70] = <<"mark", 9000>>

---------------------------------------------------------------------------
(* Properties of send_full_nec_hex (SpecApi).                              *)

\* a str of exactly 8 characters, each drawn from 0-9, a-f, A-F
IsHex8(arg) ==
    /\ arg.is_str
    /\ Len(arg.chars) = 8
    /\ \A i \in 1..8 : HexVal(arg.chars[i]) >= 0

\* send_full_nec_hex has been called and has got past its checks
Transmits == send_ret \in {"pending", "True"}

\* C12: send_full_nec_hex returns False and plays no mark, space or gap
\* whenever its argument is not a str of exactly 8 hexadecimal characters; it
\* transmits only when the argument is one.
C12_OnlyHex8Transmits ==
    send_ret # "none" =>
        /\ ~IsHex8(full_code_hex) => (send_ret = "False" /\ emitted = << >>)
        /\ Transmits => IsHex8(full_code_hex)

\* "0x1234AB" has been transmitted as the code 001234AB
C12_Witness ==
    /\ send_ret = "True"
    /\ full_code_hex = Str(<<"0", "x", "1", "2", "3", "4", "A", "B">>)
    /\ data_to_send = Word(18, 13483)
    /\ IsDataFrame(emitted, Word(18, 13483))

\* send_full_nec_hex has returned
SendReturned == send_ret \in {"True", "False"}

\* C13: for every argument of 8 hexadecimal digits, whatever its complement
\* bytes, send_full_nec_hex returns True after playing the full data frame of
\* the code the digits spell; and every decode_nec call on what the receiver
\* heard of it returns a Command carrying that 32-bit value.
C13_ChecksumLenient ==
    /\ [](IsHex8(full_code_hex) /\ SendReturned =>
              /\ send_ret = "True"
              /\ data_to_send = MagnitudeOf(full_code_hex.chars)
              /\ IsDataFrame(emitted, data_to_send)
              /\ Len(emitted) = 68 + 5 * num_repeats + 1)
    /\ [][DecodeReturns =>
              /\ decoded_code'.kind = "Command"
              /\ FullOf(decoded_code'.str) = HexOfWord(sent)
              /\ SubSeq(decoded_code'.str, 1, 2) = HexDigits(sent.hi \div 256, 2)
              /\ SubSeq(decoded_code'.str, 3, 4) = HexDigits(sent.lo \div 256, 2)]_vars

\* 12345678, which fails both checksums, was sent and came back
C13_Witness ==
    /\ send_ret = "True"
    /\ full_code_hex = Str(<<"1", "2", "3", "4", "5", "6", "7", "8">>)
    /\ ~ChecksumOk(data_to_send)
    /\ decoded_code.kind = "Command"
    /\ FullOf(decoded_code.str) = <<1, 2, 3, 4, 5, 6, 7, 8>>

---------------------------------------------------------------------------
(* Properties of decode_nec on single captures (SpecSnap).                 *)

\* the timing constants decode_nec passes to _match
DecoderTimings ==
    { NEC_HDR_MARK, NEC_HDR_SPACE, NEC_BIT_MARK, NEC_ONE_SPACE, NEC_ZERO_SPACE,
      NEC_RPT_SPACE }

Abs(x) == IF x < 0 THEN -x ELSE x

\* the durations held by the buffer and by decode_nec's snapshot
Measured ==
    { buffer[k] : k \in DOMAIN buffer } \cup { pulses[k] : k \in DOMAIN pulses }

\* the snapshot is within tolerance of 768910EF at the places that were varied
WithinTolerance ==
    \A k \in DOMAIN ExpectedAt : Abs(pulses[k] - ExpectedAt[k]) <= 400

\* C14: for every timing constant E of the decoder and every measured
\* duration m, _match(m, E) holds when |m - E| <= 399, holds when |m - E| is
\* exactly 400, and fails when |m - E| >= 401; so decode_nec returns a Command
\* for a 67-pulse capture of 768910EF without lead-in exactly when each of
\* its durations is within 400 us of what the decoder expects.
C14_ToleranceBoundary ==
    /\ [](\A m \in Measured, E \in DecoderTimings :
              /\ Abs(m - E) <= 399 => match(m, E)
              /\ Abs(m - E) = 400 => match(m, E)
              /\ Abs(m - E) >= 401 => ~match(m, E))
    /\ [][(/\ DecodeReturns
            /\ Len(pulses) = Len(FramePulses)
            /\ pulses[1] <= INITIAL_IDLE_THRESHOLD_US) =>
              (decoded_code'.kind = "Command" <=> WithinTolerance)]_vars

\* decode_nec holds a capture whose header space is 400 us long, and
\* decodes it
C14_Witness ==
    /\ Decoding
    /\ pulses = Vary(FramePulses, 2, NEC_HDR_SPACE + 400)
    /\ match(pulses[2], NEC_HDR_SPACE)
    /\ decode_pulses(pulses, last_code_hex, 0).ret.kind = "Command"

\* ps holds the header and the 32 bits of 768910EF as the sender plays them
IsValidFrame(ps) ==
    /\ Len(ps) >= 2 + NEC_BITS * 2
    /\ SubSeq(ps, 1, 2 + NEC_BITS * 2) = SubSeq(FramePulses, 1, 2 + NEC_BITS * 2)

\* C15: a snapshot whose first pulse is over 20000 us and is followed by a
\* valid frame decodes to that frame's Command; only the first pulse is
\* dropped, so a second long pulse in front of the frame, or a first pulse of
\* exactly 20000 us, yields None; a snapshot that is one long pulse yields None.
C15_LeadInDiscard ==
    [][(DecodeReturns /\ pulses # << >>) =>
          /\ (pulses[1] > 20000 /\ IsValidFrame(Tail(pulses))) =>
                 /\ decoded_code'.kind = "Command"
                 /\ FullOf(decoded_code'.str) = HexOfWord(FrameA)
          /\ (pulses[1] > 20000 /\ Len(pulses) = 1) =>
                 decoded_code'.kind = "None"
          /\ (Len(pulses) >= 2 /\ pulses[1] > 20000 /\ pulses[2] > 20000) =>
                 decoded_code'.kind = "None"
          /\ (pulses[1] = 20000 /\ IsValidFrame(Tail(pulses))) =>
                 decoded_code'.kind = "None"]_vars

\* decode_nec holds 25000 us followed by the frame, and decodes the frame
C15_Witness ==
    /\ Decoding
    /\ pulses = <<25000>> \o FramePulses
    /\ TrimIdle(pulses) = FramePulses
    /\ decode_pulses(pulses, last_code_hex, 0).ret.kind = "Command"

---------------------------------------------------------------------------
(* Properties of the capture buffer under stray light (SpecNoise).         *)

\* a call of _ir_event_handler: the pin reading differs from the last one
HandlerReturns == current_pin_value' # current_pin_value

\* C16: the buffer never holds more than 100 pulses and never a pulse under
\* 100 us; a handler call that measures less than 100 us leaves the buffer
\* and new_data_available as they were.
C16_BufferInvariant ==
    /\ [](/\ Len(buffer) <= 100
          /\ \A k \in DOMAIN buffer : buffer[k] >= 100)
    /\ [][(HandlerReturns /\ pulse_duration' < 100) =>
              /\ buffer' = buffer
              /\ new_data_available' = new_data_available]_vars

\* a glitch has arrived at a full, flagged buffer
C16_Witness ==
    /\ pulse_duration = 99
    /\ Len(buffer) = 100
    /\ new_data_available

\* the trimmed snapshot starts with a standard header
HeaderMatches(p) ==
    /\ Len(p) >= 2
    /\ match(p[1], NEC_HDR_MARK)
    /\ match(p[2], NEC_HDR_SPACE)

\* C17 (as the code has it): after a matching standard header decode_nec
\* returns a Command only if at least 64 further pulses follow the header (66
\* pulses with the header); with fewer than 64 it returns None, and the
\* header and 32 bits of a frame, without its stop mark, decode to a Command.
C17_LengthAsCoded ==
    [][(DecodeReturns /\ HeaderMatches(TrimIdle(pulses))) =>
          LET after == Len(TrimIdle(pulses)) - 2
          IN  /\ decoded_code'.kind = "Command" => after >= 64
              /\ after < 64 => decoded_code'.kind = "None"
              /\ (after = 64 /\ IsValidFrame(TrimIdle(pulses))) =>
                     decoded_code'.kind = "Command"]_vars

\* the requirement as stated: at least 66 further pulses after the header
C17_LengthAsStated ==
    [][(DecodeReturns /\ HeaderMatches(TrimIdle(pulses))) =>
          LET after == Len(TrimIdle(pulses)) - 2
          IN  /\ decoded_code'.kind = "Command" => after >= 66
              /\ after < 66 => decoded_code'.kind = "None"]_vars

\* decode_nec holds the header and 64 further pulses, and decodes them
C17_Witness ==
    /\ Decoding
    /\ pulses = SubSeq(FramePulses, 1, 66)
    /\ HeaderMatches(pulses)
    /\ decode_pulses(pulses, last_code_hex, 0).ret.kind = "Command"

\* the first three pulses left after the lead-in discard match header mark,
\* repeat space and bit mark
FirstThreeAreRepeat ==
    LET p == TrimIdle(pulses)
    IN  /\ Len(p) >= 3
        /\ match(p[1], 9000)
        /\ match(p[2], 2250)
        /\ match(p[3], 562)

\* C18: a snapshot whose first three pulses (after the lead-in discard) match
\* header mark, repeat space and bit mark is resolved by the repeat branch
\* alone: REPEAT inside the repeat window, None outside, never a Command,
\* whatever follows the three pulses; no duration matches both the header
\* space and the repeat space; and a valid standard frame always decodes to
\* its Command, never to REPEAT.
C18_RepeatStandardSeparation ==
    /\ [][(DecodeReturns /\ FirstThreeAreRepeat) =>
              /\ decoded_code'.kind \in {"REPEAT", "None"}
              /\ decoded_code'.kind = "REPEAT" <=>
                     RepeatAccepted(last_code_hex, since_code_us \div 1000)]_vars
    /\ [](\A m \in Measured :
              match(m, NEC_HDR_SPACE) => ~match(m, NEC_RPT_SPACE))
    /\ [][(DecodeReturns /\ IsValidFrame(TrimIdle(pulses))) =>
              /\ ~FirstThreeAreRepeat
              /\ decoded_code'.kind = "Command"]_vars

\* inside the repeat window decode_nec holds the three repeat pulses followed
\* by the 64 data pulses of a frame, and answers REPEAT
C18_Witness ==
    /\ Decoding
    /\ pulses = RepeatPulses \o SubSeq(FramePulses, 4, Len(FramePulses))
    /\ last_code_hex # << >>
    /\ decode_pulses(pulses, last_code_hex, since_code_us \div 1000).ret.kind
           = "REPEAT"

---------------------------------------------------------------------------
(* Properties of every decode_nec call, ready or not (SpecSnap, SpecCall). *)

\* the step in which a decode_nec call returns: from its critical section,
\* or at once because new_data_available is false
CallReturns == pc \in {"crit", "decode"} /\ pc' = "fallback"

C20_DrainAsCoded ==
    /\ [][SnapshotTaken => (new_data_available /\ pulses' = buffer)]_vars
    /\ [](Decoding => pulses = buffer)
    /\ [][DecodeReturns =>
              /\ buffer' = << >>
              /\ ~new_data_available'
              /\ pulses' = << >>
              /\ decoded_code'.kind \in {"Command", "REPEAT", "None"}]_vars
    /\ [][(CallReturns /\ ~Decoding) =>
              /\ ~new_data_available
              /\ buffer' = buffer
              /\ decoded_code'.kind = "None"]_vars

\* the claim as stated: every decode_nec call leaves the buffer empty
C20_DrainAsStated ==
    [][CallReturns => buffer' = << >>]_vars

\* a whole transmission was heard and decoded, and nothing is left of it
C20_Witness ==
    /\ pc = "fallback"
    /\ decoded_code.kind = "Command"
    /\ FullOf(decoded_code.str) = HexOfWord(sent)
    /\ script = << >>
    /\ cur_tx = 1
    /\ buffer = << >>
    /\ n_since_snap = 0
    /\ ~new_data_available

---------------------------------------------------------------------------
(* Properties of readiness in the concurrent receiver (Spec, SpecFair).    *)

\* C21: new_data_available is true only while the buffer is non-empty.
C21_ReadinessImpliesData == new_data_available => buffer # << >>

\* the 101st record of a burst has cleared a buffer that was flagged at its
\* 68th pulse, and the flag is still set
C21_Witness ==
    /\ new_data_available
    /\ buffer = << >>
    /\ n_since_snap = 101
    /\ ready_src = "irq_count"
    /\ pc # "crit"

\* no edge will arrive any more
EdgesStopped == script = << >> /\ tx_left = 0

\* C22: once edges have stopped arriving while the buffer is non-empty,
\* new_data_available is eventually set and decode_nec eventually takes the
\* buffer as its snapshot.
C22_EventuallyDecoded ==
    /\ (EdgesStopped /\ buffer # << >>) ~> (new_data_available \/ Decoding)
    /\ (EdgesStopped /\ buffer # << >>) ~> Decoding

\* long after the last edge the four pulses of a repeat frame are still in
\* the buffer, unflagged
C22_Witness ==
    /\ EdgesStopped
    /\ buffer = <<NEC_FRAME_GAP_MS * 1000, NEC_RPT_HDR_MARK_US, NEC_RPT_SPACE_US,
                  NEC_RPT_BIT_MARK_US>>
    /\ ~new_data_available
    /\ since_edge_us = IdleCapUs
    /\ cmd_seen
    /\ pc = "loop"

---------------------------------------------------------------------------
(* Properties of the carrier (SpecApi).                                    *)

\* a space or a gap has just been played
SpaceOrGapPlayed ==
    /\ Len(emitted') = Len(emitted) + 1
    /\ emitted'[Len(emitted')][1] \in {"space", "gap"}

\* C23: the PWM duty is non-zero only inside _mark, where it is
\* PWM_DUTY_CYCLE; it is zero before and after every space and every 40 ms
\* gap, and whenever _transmit_data or send_full_nec_hex has returned.
C23_CarrierSafety ==
    /\ [](duty # 0 => (tx_pc = "in_mark" /\ duty = PWM_DUTY_CYCLE))
    /\ []((Returned \/ SendReturned) => duty = 0)
    /\ [][SpaceOrGapPlayed => (duty = 0 /\ duty' = 0)]_vars

\* the carrier is on inside the header mark of a repeat frame
C23_Witness ==
    /\ tx_pc = "in_mark"
    /\ duty = PWM_DUTY_CYCLE
    /\ num_repeats = 1
    /\ Len(emitted) = 69
    /\ emitted[69] = <<"gap", 40>>
    /\ send_ret = "pending"


\* the PWM of sender id has been initialised and not de-initialised
PwmLive(id) == id \in 1..n_senders /\ pwm_deinits[id] = 0
\* the sender a send_ir step transmits through
SenderUsed == IF sender_instance = 0 THEN n_senders' ELSE sender_instance
\* a send_ir step that played at least one segment
SendIrTransmits == last_call' \in {"send_ok", "send_caught"} /\ emitted' # << >>
                   /\ (emitted' # emitted \/ last_call' # last_call
                       \/ n_senders' # n_senders)

===========================================================================
